---- MODULE Spec2Model ----
(***************************************************************************)
(* Model of the wildfire log viewer (src/src/webviz/ansi.py and            *)
(* src/src/webviz/server.py).                                              *)
(*                                                                         *)
(* Text is a sequence of symbols.  A symbol stands for one character       *)
(* ("0".."9", ";", "[", "m", ":", "=", " ", "x", "y"), for the escape      *)
(* character ("ESC"), the line feed ("NL"), a byte that is not valid       *)
(* UTF-8 ("xFF"), or for one of the fixed words the header patterns look   *)
(* for ("Step", "Burning", "cells").                                       *)
(***************************************************************************)
EXTENDS Integers, Sequences, FiniteSets, TLC

VARIABLES
    s,          \* parse_ansi_to_spans: the input line
    spans,      \* parse_ansi_to_spans: the returned list of Span
    ansiPc,     \* "call" before parse_ansi_to_spans runs, "done" after
    hdrLine,    \* is_step_header: the input line
    hdr,        \* is_step_header: the returned (step, burning) or None
    hdrPc,      \* "call" before is_step_header runs, "done" after
    idxLines,   \* load_index_jsonl: the lines of the index file
    idxRes,     \* load_index_jsonl: the entries returned or the exception raised
    idxPc,      \* "call" before load_index_jsonl runs, "done" after
    disk,       \* the files that exist, by path
    SESSION,    \* server.SESSION: source, metrics, agent_status
    DEFAULT_FONT,   \* ansi.DEFAULT_FONT
    resp,       \* the response of the request served last, until it is sent
    loader,     \* api_load served step by step: position, locals, response
    query,      \* api_frame or api_export_gif served step by step, likewise
    colN,       \* xterm_256_to_hex: the colour code passed
    colHex,     \* xterm_256_to_hex: the string returned
    colPc       \* "call" before xterm_256_to_hex runs, "done" after

ansiVars == <<s, spans, ansiPc>>
hdrVars == <<hdrLine, hdr, hdrPc>>
idxVars == <<idxLines, idxRes, idxPc>>
concVars == <<loader, query>>
colVars == <<colN, colHex, colPc>>
srvVars == <<disk, SESSION, DEFAULT_FONT, resp, concVars, colVars>>
vars == <<s, spans, ansiPc, hdrLine, hdr, hdrPc, idxLines, idxRes, idxPc,
          disk, SESSION, DEFAULT_FONT, resp, loader, query, colN, colHex, colPc>>

(***************************************************************************)
(* Bounds of the model.                                                    *)
(***************************************************************************)
MaxItems == 3       \* an input line is made of at most MaxItems items
MaxNum == 12        \* step numbers and metric values range over 0..MaxNum
MaxIdxLines == 3    \* an index file has at most MaxIdxLines lines
MaxK == 4           \* requested frame indices and range ends reach MaxK
MaxLines == 3       \* a log drawn for the frame store has at most MaxLines lines
MaxLoads == 2       \* Load requests served while queries run beside them
MaxColor == 258     \* colour codes range over -3..MaxColor
MaxAnnLines == 3    \* a drawn annotation file has at most MaxAnnLines lines

(***************************************************************************)
(* Python helpers.                                                         *)
(***************************************************************************)
None == "None"

\* body(v), with v evaluated once
Bind(v, body(_)) == CHOOSE y \in {body(x) : x \in {v}} : TRUE

Digits == {"0", "1", "2", "3", "4", "5", "6", "7", "8", "9"}

DigitVal(d) ==
    CASE d = "0" -> 0 [] d = "1" -> 1 [] d = "2" -> 2 [] d = "3" -> 3
      [] d = "4" -> 4 [] d = "5" -> 5 [] d = "6" -> 6 [] d = "7" -> 7
      [] d = "8" -> 8 [] d = "9" -> 9

\* int(p) for a string of decimal digits
RECURSIVE PyInt(_)
PyInt(p) ==
    IF p = <<>> THEN 0
    ELSE 10 * PyInt(SubSeq(p, 1, Len(p) - 1)) + DigitVal(p[Len(p)])

\* str.isdigit(): non-empty and made of digits only
IsDigit(p) == p # <<>> /\ \A k \in 1..Len(p) : p[k] \in Digits

\* str.split(sep): the pieces between the occurrences of sep
RECURSIVE PySplit(_, _)
PySplit(str, sep) ==
    IF \E k \in 1..Len(str) : str[k] = sep
    THEN LET k == CHOOSE a \in 1..Len(str) :
                     str[a] = sep /\ \A b \in 1..(a - 1) : str[b] # sep
         IN  <<SubSeq(str, 1, k - 1)>> \o PySplit(SubSeq(str, k + 1, Len(str)), sep)
    ELSE <<str>>

\* [f(x) for x in xs if keep(x)] for the keep/convert pair of ansi.py:98
RECURSIVE IntParts(_)
IntParts(ps) ==
    IF ps = <<>> THEN <<>>
    ELSE (IF IsDigit(Head(ps)) THEN <<PyInt(Head(ps))>> ELSE <<>>)
             \o IntParts(Tail(ps))

(***************************************************************************)
(* Colour model (ansi.py:23-62).                                           *)
(***************************************************************************)
BASIC_COLORS ==
    (30 :> "#000000") @@ (31 :> "#b22222") @@ (32 :> "#228b22") @@ (33 :> "#b8860b") @@
    (34 :> "#1e90ff") @@ (35 :> "#9932cc") @@ (36 :> "#20b2aa") @@ (37 :> "#bfbfbf") @@
    (90 :> "#808080") @@ (91 :> "#ff4d4d") @@ (92 :> "#59c659") @@ (93 :> "#ffd24d") @@
    (94 :> "#4d88ff") @@ (95 :> "#cc66ff") @@ (96 :> "#33cccc") @@ (97 :> "#ffffff")

BASIC_BG ==
    (100 :> "#555555") @@ (101 :> "#ff6b6b") @@ (102 :> "#6bd36b") @@ (103 :> "#ffe27a") @@
    (104 :> "#7aa7ff") @@ (105 :> "#da8cff") @@ (106 :> "#66e0e0") @@ (107 :> "#f7f7f7") @@
    [c \in {k + 10 : k \in DOMAIN BASIC_COLORS} |-> BASIC_COLORS[c - 10]]

\* dict.get(key, default)
DictGet(d, key, default) == IF key \in DOMAIN d THEN d[key] ELSE default

HexDigit ==
    <<"0", "1", "2", "3", "4", "5", "6", "7", "8", "9", "a", "b", "c", "d", "e", "f">>

\* f"{v:02x}" for 0 <= v <= 255
Hex02(v) == HexDigit[(v \div 16) + 1] \o HexDigit[(v % 16) + 1]

SYSTEM_LUT ==
    (0 :> "#000000") @@ (1 :> "#800000") @@ (2 :> "#008000") @@ (3 :> "#808000") @@
    (4 :> "#000080") @@ (5 :> "#800080") @@ (6 :> "#008080") @@ (7 :> "#c0c0c0") @@
    (8 :> "#808080") @@ (9 :> "#ff0000") @@ (10 :> "#00ff00") @@ (11 :> "#ffff00") @@
    (12 :> "#0000ff") @@ (13 :> "#ff00ff") @@ (14 :> "#00ffff") @@ (15 :> "#ffffff")

\* the channel levels spread evenly over 0..255
to_255_even(v) == v * 51

to_255(v) == IF v = 0 THEN 0 ELSE 55 + v * 40

xterm_256_to_hex(n) ==
    IF n < 16 THEN DictGet(SYSTEM_LUT, n, "#cccccc")
    ELSE IF 16 <= n /\ n <= 231
    THEN LET m == n - 16
             r == (m \div 36) % 6
             g == (m \div 6) % 6
             b == m % 6
         IN  "#" \o Hex02(to_255(r)) \o Hex02(to_255(g)) \o Hex02(to_255(b))
    ELSE IF 232 <= n /\ n <= 255
    THEN LET v == 8 + (n - 232) * 10
         IN  "#" \o Hex02(v) \o Hex02(v) \o Hex02(v)
    ELSE "#cccccc"

(***************************************************************************)
(* Escape-code interpreter (ansi.py:21, 64-126).                           *)
(*                                                                         *)
(* Style objects live on a heap, as Python objects do: cur and the style   *)
(* of a Span are references (heap indices), an attribute assignment        *)
(* changes the object in place, and Style(...) allocates a new object.     *)
(***************************************************************************)
Style(bold, fg, bg) == [bold |-> bold, fg |-> fg, bg |-> bg]

DefaultStyle == Style(FALSE, None, None)

\* SGR_RE = ESC [ ([0-9;]*) m, tried at position a: the position of the
\* closing "m", or 0 when the pattern does not match at a
SgrEndAt(str, a) ==
    IF a + 2 <= Len(str) /\ str[a] = "ESC" /\ str[a + 1] = "["
    THEN LET stops == {k \in (a + 2)..Len(str) : str[k] \notin Digits \cup {";"}}
         IN  IF stops = {} THEN 0
             ELSE LET q == CHOOSE k \in stops : \A j \in stops : k <= j
                  IN  IF str[q] = "m" THEN q ELSE 0
    ELSE 0

\* SGR_RE.finditer: the start of the first match at or after position i, or 0
SgrNext(str, i) ==
    LET starts == {a \in i..Len(str) : SgrEndAt(str, a) # 0}
    IN  IF starts = {} THEN 0 ELSE CHOOSE a \in starts : \A b \in starts : a <= b

\* the locals at entry with a current style that is bold from the start
ParseStartBold ==
    [heap |-> <<Style(TRUE, None, None)>>, cur |-> 1, buf |-> <<>>, spans |-> <<>>]

\* the interpreter's locals at entry: cur = Style(), buf = [], spans = []
ParseStart == [heap |-> <<DefaultStyle>>, cur |-> 1, buf |-> <<>>, spans |-> <<>>]

\* buf.append(chunk) guarded by "if chunk"
AppendChunk(st, chunk) ==
    IF chunk # <<>> THEN [st EXCEPT !.buf = st.buf \o chunk] ELSE st

\* a flush() whose Span holds the object cur itself instead of a copy
flushShared(st) ==
    IF st.buf # <<>>
    THEN [st EXCEPT
            !.spans = Append(st.spans, [text |-> st.buf, style |-> st.cur]),
            !.buf = <<>>]
    ELSE st

\* flush(): a Span of the joined buffer and a fresh copy of cur
flush(st) ==
    IF st.buf # <<>>
    THEN [st EXCEPT
            !.heap = Append(st.heap, Style(st.heap[st.cur].bold,
                                           st.heap[st.cur].fg,
                                           st.heap[st.cur].bg)),
            !.spans = Append(st.spans, [text |-> st.buf, style |-> Len(st.heap) + 1]),
            !.buf = <<>>]
    ELSE st

\* cur = Style()
NewCur(st) == [st EXCEPT !.heap = Append(st.heap, DefaultStyle),
                         !.cur = Len(st.heap) + 1]

\* cur.bold = True, cur.fg = v, cur.bg = v
SetBold(st) == [st EXCEPT !.heap[st.cur].bold = TRUE]
SetFg(st, v) == [st EXCEPT !.heap[st.cur].fg = v]
SetBg(st, v) == [st EXCEPT !.heap[st.cur].bg = v]

\* the while loop over parts, from index j (0-based, as in the source)
RECURSIVE ApplyParts(_, _, _)
ApplyParts(parts, j, st) ==
    IF ~(j < Len(parts)) THEN st
    ELSE LET c == parts[j + 1]
             curStyle == st.heap[st.cur]
         IN  IF c = 0 THEN ApplyParts(parts, j + 1, NewCur(flush(st)))
             ELSE IF c = 1 THEN ApplyParts(parts, j + 1, SetBold(flush(st)))
             ELSE IF (30 <= c /\ c <= 37) \/ (90 <= c /\ c <= 97)
             THEN ApplyParts(parts, j + 1,
                      SetFg(flush(st), DictGet(BASIC_COLORS, c, curStyle.fg)))
             ELSE IF (40 <= c /\ c <= 47) \/ (100 <= c /\ c <= 107)
             THEN ApplyParts(parts, j + 1,
                      SetBg(flush(st), DictGet(BASIC_BG, c, curStyle.bg)))
             ELSE IF c = 38 /\ j + 2 < Len(parts) /\ parts[j + 2] = 5
             THEN ApplyParts(parts, j + 3,
                      SetFg(flush(st), xterm_256_to_hex(parts[j + 3])))
             ELSE IF c = 48 /\ j + 2 < Len(parts) /\ parts[j + 2] = 5
             THEN ApplyParts(parts, j + 3,
                      SetBg(flush(st), xterm_256_to_hex(parts[j + 3])))
             ELSE ApplyParts(parts, j + 1, st)

\* the body of "for m in SGR_RE.finditer(s)" for the match at a..q, the text
\* before it starting at i (positions are 1-based here)
OnMatch(str, i, a, q, st) ==
    LET st1 == AppendChunk(st, SubSeq(str, i, a - 1))
        codes == SubSeq(str, a + 2, q - 1)
    IN  IF codes = <<>> \/ codes = <<"0">>
        THEN NewCur(flush(st1))
        ELSE ApplyParts(IntParts(PySplit(codes, ";")), 0, st1)

\* a variant of the trailing-text step that loses the first trailing character
TrailingTextSkipsOne(str, i, st) ==
    flush(IF i < Len(str)
          THEN [st EXCEPT !.buf = st.buf \o SubSeq(str, i + 1, Len(str))]
          ELSE st)

\* "if i < len(s): buf.append(s[i:])" and the last flush()
TrailingText(str, i, st) ==
    flush(IF i <= Len(str)
          THEN [st EXCEPT !.buf = st.buf \o SubSeq(str, i, Len(str))]
          ELSE st)

RECURSIVE ParseFrom(_, _, _)
ParseFrom(str, i, st) ==
    LET a == SgrNext(str, i)
    IN  IF a = 0 THEN TrailingText(str, i, st)
        ELSE LET q == SgrEndAt(str, a)
             IN  ParseFrom(str, q + 1, OnMatch(str, i, a, q, st))

\* what the caller holds after the return: each Span with the fields its
\* style object has at that time
parse_ansi_to_spans(str) ==
    LET st == ParseFrom(str, 1, ParseStart)
    IN  [k \in 1..Len(st.spans) |->
            [text |-> st.spans[k].text, style |-> st.heap[st.spans[k].style]]]

\* SGR_RE.sub("", s), as visual_len uses it
SgrStrip(str) ==
    LET F[i \in 1..(Len(str) + 1)] ==
            IF i > Len(str) THEN <<>>
            ELSE LET q == SgrEndAt(str, i)
                 IN  IF q # 0 THEN F[q + 1] ELSE <<str[i]>> \o F[i + 1]
    IN  F[1]

(***************************************************************************)
(* Frame headers and header-based splitting (ansi.py:153-181).             *)
(***************************************************************************)
Whitespace == {" ", "NL"}

\* str.strip() and str.rstrip()
RECURSIVE PyRStrip(_)
PyRStrip(str) ==
    IF str # <<>> /\ str[Len(str)] \in Whitespace
    THEN PyRStrip(SubSeq(str, 1, Len(str) - 1))
    ELSE str

RECURSIVE PyLStrip(_)
PyLStrip(str) ==
    IF str # <<>> /\ Head(str) \in Whitespace THEN PyLStrip(Tail(str)) ELSE str

PyStrip(str) == PyLStrip(PyRStrip(str))

\* str.splitlines(): the lines between line feeds, no empty line after a
\* final line feed
PySplitLines(str) ==
    LET pieces == PySplit(str, "NL")
    IN  IF pieces[Len(pieces)] = <<>>
        THEN SubSeq(pieces, 1, Len(pieces) - 1)
        ELSE pieces

\* sep.join(lines)
RECURSIVE PyJoin(_, _)
PyJoin(lines, sep) ==
    IF lines = <<>> THEN <<>>
    ELSE IF Len(lines) = 1 THEN lines[1]
    ELSE lines[1] \o <<sep>> \o PyJoin(Tail(lines), sep)

(* Pattern pieces.  A position is 1-based; 0 means that the match failed. *)

\* one literal symbol at p
RxLit(str, p, sym) ==
    IF p # 0 /\ p <= Len(str) /\ str[p] = sym THEN p + 1 ELSE 0

\* a literal string at p
RECURSIVE RxStr(_, _, _)
RxStr(str, p, lit) ==
    IF lit = <<>> THEN p ELSE RxStr(str, RxLit(str, p, Head(lit)), Tail(lit))

\* an optional literal string at p: (?:lit)?
RxOpt(str, p, lit) ==
    IF p = 0 THEN 0
    ELSE IF RxStr(str, p, lit) # 0 THEN RxStr(str, p, lit) ELSE p

\* the end of the longest run of symbols of class cls starting at p
RECURSIVE RxRun(_, _, _)
RxRun(str, p, cls) ==
    IF p # 0 /\ p <= Len(str) /\ str[p] \in cls THEN RxRun(str, p + 1, cls) ELSE p

\* \s* and \s+ and \d+ at p
RxWs0(str, p) == RxRun(str, p, Whitespace)
RxWs1(str, p) == IF p # 0 /\ RxRun(str, p, Whitespace) > p THEN RxRun(str, p, Whitespace) ELSE 0
RxDigits1(str, p) == IF p # 0 /\ RxRun(str, p, Digits) > p THEN RxRun(str, p, Digits) ELSE 0

\* the part the two variants share, ^(?:ESC[1m)?Step\s+(\d+)ESC[0m?:\s*Burning ,
\* as the positions [d1, d2) of group 1 and the position after "Burning"
HdrPrefix(str) ==
    LET a == RxOpt(str, 1, <<"ESC", "[", "1", "m">>)
        b == RxWs1(str, RxLit(str, a, "Step"))
        c == RxDigits1(str, b)
        d == RxOpt(str, RxStr(str, c, <<"ESC", "[", "0">>), <<"m">>)
        e == RxLit(str, RxWs0(str, RxLit(str, d, ":")), "Burning")
    IN  [d1 |-> b, d2 |-> c, after |-> e]

\* the None that is_step_header returns; a match is a pair
NoMatch == <<>>

\* a match of one pattern as (group 1, group 2), or None
HdrMatch(str, pre, eq) ==
    LET x1 == RxWs0(str, eq)
        x2 == RxDigits1(str, x1)
    IN  IF x2 # 0
        THEN <<PyInt(SubSeq(str, pre.d1, pre.d2 - 1)), PyInt(SubSeq(str, x1, x2 - 1))>>
        ELSE NoMatch

\* Variant A: ...Burning\s*cells\s*=\s*(\d+)
MatchVariantA(str) ==
    LET pre == HdrPrefix(str)
    IN  HdrMatch(str, pre,
            RxLit(str, RxWs0(str, RxLit(str, RxWs0(str, pre.after), "cells")), "="))

\* Variant B: ...Burning\s*=\s*(\d+)
MatchVariantB(str) ==
    LET pre == HdrPrefix(str)
    IN  HdrMatch(str, pre, RxLit(str, RxWs0(str, pre.after), "="))

\* is_step_header: the first variant that matches line.strip()
is_step_header(line) ==
    LET t == PyStrip(line)
    IN  IF MatchVariantA(t) # NoMatch THEN MatchVariantA(t)
        ELSE IF MatchVariantB(t) # NoMatch THEN MatchVariantB(t)
        ELSE NoMatch

\* idx = [i for i, l in enumerate(lines) if is_step_header(l)], 0-based
RECURSIVE HeaderIdx(_, _)
HeaderIdx(lines, i) ==
    IF i >= Len(lines) THEN <<>>
    ELSE (IF is_step_header(lines[i + 1]) # NoMatch THEN <<i>> ELSE <<>>)
             \o HeaderIdx(lines, i + 1)

\* the block of a frame taken up to the end of the text instead of the
\* next header
FrameBlockToEnd(lines, from, to) == PyRStrip(PyJoin(SubSeq(lines, from + 1, Len(lines)), "NL"))

\* the block of one frame: "\n".join(lines[s:e]).rstrip()
FrameBlock(lines, from, to) == PyRStrip(PyJoin(SubSeq(lines, from + 1, to), "NL"))

\* the loop over zip(idx[:-1], idx[1:])
RECURSIVE FrameBlocks(_, _, _)
FrameBlocks(lines, idx, k) ==
    IF k >= Len(idx) THEN <<>>
    ELSE LET block == FrameBlock(lines, idx[k], idx[k + 1])
         IN  (IF block # <<>> THEN <<block>> ELSE <<>>) \o FrameBlocks(lines, idx, k + 1)

split_frames_by_headers(raw_text) ==
    LET lines == PySplitLines(raw_text)
        idx == HeaderIdx(lines, 0)
    IN  IF idx = <<>> THEN <<>>
        ELSE FrameBlocks(lines, Append(idx, Len(lines)), 1)

(***************************************************************************)
(* Index file reader (ansi.py:218-236).                                    *)
(*                                                                         *)
(* A line of an index file (a file of valid UTF-8) is modelled by what     *)
(* json.loads makes of it: blank, not JSON, a JSON value that is no        *)
(* object, or an object.  A JSON value is an integer, a string or null.    *)
(***************************************************************************)
JInt(n) == [t |-> "int", v |-> n]
JStr == [t |-> "str", v |-> 0]
JNull == [t |-> "null", v |-> 0]

BlankLine == [kind |-> "blank", obj |-> <<>>]
GarbageLine == [kind |-> "garbage", obj |-> <<>>]
ArrayLine == [kind |-> "array", obj |-> <<>>]
ObjectLine(obj) == [kind |-> "object", obj |-> obj]

IndexEntry(offset, length) == [offset |-> offset, length |-> length]

\* obj.get(key): None when the key is absent
ObjGet(obj, key) == IF key \in DOMAIN obj THEN obj[key] ELSE JNull

\* bool(v): 0, None (and "") are false
Truthy(v) == (v.t = "int" /\ v.v # 0) \/ v.t = "str"

\* a or b
PyOr(a, b) == IF Truthy(a) THEN a ELSE b

\* the result of a call: a value, or the exception it raised
Returned(val) == [exc |-> None, val |-> val]
Raised(exc) == [exc |-> exc, val |-> <<>>]

\* the body of the loop for one object: the entries it appends, or the
\* exception of obj["end"] - off
IndexObject(obj) ==
    LET off == PyOr(PyOr(ObjGet(obj, "offset"), ObjGet(obj, "start")), JInt(0))
        ln0 == PyOr(ObjGet(obj, "length"), ObjGet(obj, "len"))
        useEnd == ln0.t = "null" /\ "end" \in DOMAIN obj
    IN  IF useEnd /\ ~(obj["end"].t = "int" /\ off.t = "int")
        THEN Raised("TypeError")
        ELSE LET ln == IF useEnd THEN JInt(obj["end"].v - off.v) ELSE ln0
             IN  IF off.t = "int" /\ ln.t = "int"
                 THEN Returned(<<IndexEntry(off.v, ln.v)>>)
                 ELSE Returned(<<>>)

\* the loop "for line in f" from line i on, entries collected so far
RECURSIVE IndexLoop(_, _, _)
IndexLoop(lines, i, entries) ==
    IF i > Len(lines) THEN Returned(entries)
    ELSE LET l == lines[i]
         IN  IF l.kind = "blank" THEN IndexLoop(lines, i + 1, entries)
             ELSE IF l.kind = "garbage" THEN Raised("JSONDecodeError")
             ELSE IF l.kind = "array" THEN Raised("AttributeError")
             ELSE LET r == IndexObject(l.obj)
                  IN  IF r.exc # None THEN r
                      ELSE IndexLoop(lines, i + 1, entries \o r.val)

load_index_jsonl(lines) == IndexLoop(lines, 1, <<>>)

(***************************************************************************)
(* Metric extraction (ansi.py:183-214).  An Optional[int] is <<>> for      *)
(* None and <<v>> for the integer v.                                       *)
(***************************************************************************)
NoInt == <<>>
SomeInt(v) == <<v>>

StartsWith(str, pre) == Len(str) >= Len(pre) /\ SubSeq(str, 1, Len(pre)) = pre

\* sub in str
Contains(str, sub) ==
    \E p \in 1..(Len(str) - Len(sub) + 1) : SubSeq(str, p, p + Len(sub) - 1) = sub

\* re.search over a pattern given by its match-at-p operator At(str, p),
\* which returns the Optional[int] of group 1: the leftmost match
RxSearch(str, At(_, _)) ==
    LET hits == {p \in 1..Len(str) : At(str, p) # NoInt}
    IN  IF hits = {} THEN NoInt
        ELSE At(str, CHOOSE p \in hits : \A q \in hits : p <= q)

\* (\d+) at p
DigitsAt(str, p) ==
    IF RxDigits1(str, p) # 0 THEN SomeInt(PyInt(SubSeq(str, p, RxDigits1(str, p) - 1)))
    ELSE NoInt

\* extinguished\s*=\s*(\d+) at p
ExtinguishedAt(str, p) ==
    IF p = 0 THEN NoInt
    ELSE DigitsAt(str, RxWs0(str, RxLit(str, RxWs0(str, RxLit(str, p, "Extinguished")), "=")))

\* \s*=?\s*(\d+) at p
NaturalTailAt(str, p) ==
    IF p = 0 THEN NoInt
    ELSE DigitsAt(str, RxWs0(str, RxOpt(str, RxWs0(str, p), <<"=">>)))

\* (?:natural|natural burnouts)\s*=?\s*(\d+) at p
NaturalAt(str, p) ==
    IF NaturalTailAt(str, RxLit(str, p, "Natural")) # NoInt
    THEN NaturalTailAt(str, RxLit(str, p, "Natural"))
    ELSE NaturalTailAt(str, RxStr(str, p, <<"Natural", " ", "burnouts">>))

\* m.group(1) if m else old
GroupOr(m, old) == IF m # NoInt THEN m ELSE old

\* the four tests of the scan for one line; acc = [nb, ex]
MetricLine(ln, acc) ==
    LET t == PyStrip(ln)
        nb1 == IF StartsWith(t, <<"Natural", " ", "burnouts">>)
               THEN GroupOr(RxSearch(t, DigitsAt), acc.nb) ELSE acc.nb
        ex1 == IF StartsWith(t, <<"Extinguished", " ", "by", " ", "agents">>)
               THEN GroupOr(RxSearch(t, DigitsAt), acc.ex) ELSE acc.ex
        ex2 == IF Contains(t, <<"Extinguished", "=">>)
               THEN GroupOr(RxSearch(t, ExtinguishedAt), ex1) ELSE ex1
        nb2 == IF Contains(t, <<"Natural", " ", "burnouts">>) \/ Contains(t, <<"Natural", "=">>)
               THEN GroupOr(RxSearch(t, NaturalAt), nb1) ELSE nb1
    IN  [nb |-> nb2, ex |-> ex2]

\* for ln in lines[1:6], from the 1-based position i
RECURSIVE MetricScan(_, _, _)
MetricScan(lines, i, acc) ==
    IF i > Len(lines) \/ i > 6 THEN acc
    ELSE MetricScan(lines, i + 1, MetricLine(lines[i], acc))

\* the three values of one frame
BlockMetrics(block) ==
    LET lines == PySplitLines(block)
        hd == IF lines # <<>> THEN is_step_header(lines[1]) ELSE NoMatch
        b == IF hd # NoMatch THEN SomeInt(hd[2]) ELSE NoInt
        rest == MetricScan(lines, 2, [nb |-> NoInt, ex |-> NoInt])
    IN  [b |-> b, nb |-> rest.nb, ex |-> rest.ex]

parse_metrics(frames) ==
    ("burning_cells" :> [k \in 1..Len(frames) |-> BlockMetrics(frames[k]).b]) @@
    ("natural_burnouts" :> [k \in 1..Len(frames) |-> BlockMetrics(frames[k]).nb]) @@
    ("extinguished_cum" :> [k \in 1..Len(frames) |-> BlockMetrics(frames[k]).ex])

(***************************************************************************)
(* Files.  A disk (fs) maps the paths of the files that exist to their    *)
(* content:                                                                *)
(* bytes (symbols) for a log or an annotation file, lines for an index     *)
(* file.                                                                   *)
(***************************************************************************)
\* a path as os.path.splitext sees it; NoPath is the None (or empty) path
Path(base, ext) == [base |-> base, ext |-> ext]
NoPath == Path("", "")

\* bool(path)
PathGiven(path) == path # NoPath

TextFile(bytes) == [bytes |-> bytes, json |-> <<>>]
JsonlFile(lines) == [bytes |-> <<>>, json |-> lines]

\* os.path.isfile(path)
IsFile(fs, path) == path \in DOMAIN fs

\* open(path, "r", encoding="utf-8").read(): FrameSource._read_text
ReadTextOpen(fs, path) ==
    IF ~IsFile(fs, path) THEN Raised("FileNotFoundError")
    ELSE IF \E k \in 1..Len(fs[path].bytes) : fs[path].bytes[k] = "xFF"
    THEN Raised("UnicodeDecodeError")
    ELSE Returned(fs[path].bytes)

\* server._read_text: the same after its own isfile test
ServerReadText(fs, path) ==
    IF ~IsFile(fs, path) THEN Raised("FileNotFoundError") ELSE ReadTextOpen(fs, path)

(***************************************************************************)
(* Frame store (ansi.py:238-275).                                          *)
(***************************************************************************)
\* seq[i] for a Python list and a 0-based, possibly negative, index
PyIndex(seq, i) ==
    IF 0 <= i /\ i < Len(seq) THEN Returned(seq[i + 1])
    ELSE IF -Len(seq) <= i /\ i < 0 THEN Returned(seq[Len(seq) + i + 1])
    ELSE Raised("IndexError")

\* FrameSource.__init__
FrameSource(fs, ans_path, index_jsonl) ==
    Bind(IF PathGiven(index_jsonl) /\ IsFile(fs, index_jsonl)
         THEN load_index_jsonl(fs[index_jsonl].json) ELSE Returned(<<>>),
         LAMBDA idx :
            IF idx.exc # None THEN Raised(idx.exc)
            ELSE IF Len(idx.val) > 0
            THEN Returned([ans_path |-> ans_path, indexed |-> TRUE,
                           frames |-> <<>>, entries |-> idx.val])
            ELSE Bind(ReadTextOpen(fs, ans_path),
                      LAMBDA raw :
                         IF raw.exc # None THEN Raised(raw.exc)
                         ELSE Returned([ans_path |-> ans_path, indexed |-> FALSE,
                                        frames |-> split_frames_by_headers(raw.val),
                                        entries |-> <<>>])))

\* FrameSource.__len__
SourceLen(src) == IF src.indexed THEN Len(src.entries) ELSE Len(src.frames)

\* f.seek(offset); f.read(length) on a file of the given bytes
SeekRead(bytes, offset, length) ==
    IF offset < 0 THEN Raised("OSError")
    ELSE IF length < -1 THEN Raised("ValueError")
    ELSE IF length = -1 THEN Returned(SubSeq(bytes, offset + 1, Len(bytes)))
    ELSE LET last == IF offset + length <= Len(bytes) THEN offset + length ELSE Len(bytes)
         IN  Returned(SubSeq(bytes, offset + 1, last))

\* bytes.decode("utf-8", errors="replace")
DecodeReplace(bytes) ==
    [k \in 1..Len(bytes) |-> IF bytes[k] = "xFF" THEN "REPL" ELSE bytes[k]]

\* FrameSource.get
FrameSourceGet(fs, src, k) ==
    IF src.indexed
    THEN LET ent == PyIndex(src.entries, k - 1)
         IN  IF ent.exc # None THEN Raised(ent.exc)
             ELSE IF ~IsFile(fs, src.ans_path) THEN Raised("FileNotFoundError")
             ELSE LET data == SeekRead(fs[src.ans_path].bytes, ent.val.offset, ent.val.length)
                  IN  IF data.exc # None THEN Raised(data.exc)
                      ELSE Returned(DecodeReplace(data.val))
    ELSE PyIndex(src.frames, k - 1)

(***************************************************************************)
(* Rendering (ansi.py:130-149, 285-344).                                   *)
(***************************************************************************)
\* the inline style of one span
StyleBits(st) ==
    (IF st.fg # None THEN <<"color:" \o st.fg>> ELSE <<>>)
        \o (IF st.bg # None THEN <<"background-color:" \o st.bg>> ELSE <<>>)
        \o (IF st.bold THEN <<"font-weight:bold">> ELSE <<>>)

\* one output line: its <span> elements, or the placeholder of an empty line
HtmlLine(ln) ==
    LET sp == parse_ansi_to_spans(ln)
    IN  [elems |-> [k \in 1..Len(sp) |-> [text |-> sp[k].text, style |-> StyleBits(sp[k].style)]],
         nbsp |-> sp = <<>>]

\* ansi_to_html: the output lines that "<br/>" joins
ansi_to_html(str) ==
    LET lines == PySplitLines(str)
    IN  [k \in 1..Len(lines) |-> HtmlLine(lines[k])]

\* the font objects: DejaVuSansMono at a point size, or PIL's default font
TrueType(point_size) == [family |-> "DejaVuSansMono", size |-> point_size]
PilDefault == [family |-> "default", size |-> 0]

\* no font loaded yet: DEFAULT_FONT is None
NoFont == [family |-> "None", size |-> 0]

\* _load_font: the font returned, which is also DEFAULT_FONT afterwards;
\* dejavu tells whether ImageFont.truetype finds the font file
LoadFont(default_font, point_size, dejavu) ==
    IF default_font # NoFont THEN default_font
    ELSE IF dejavu THEN TrueType(point_size)
    ELSE PilDefault

\* font.getlength("M") in tenths of a pixel: 0.6 em for DejaVu Sans Mono,
\* 6 pixels for the built-in bitmap font
GetLengthM(font) == IF font.family = "DejaVuSansMono" THEN 6 * font.size ELSE 60

PadX == 8
PadY == 8

Max(a, b) == IF a >= b THEN a ELSE b
Min(a, b) == IF a <= b THEN a ELSE b

RECURSIVE MaxOf(_)
MaxOf(xs) == IF Len(xs) = 1 THEN xs[1] ELSE Max(xs[1], MaxOf(Tail(xs)))

\* ansi_to_image with the font that _load_font returned
ansi_to_image(text, font, font_size, bg_color) ==
    LET lines == IF PySplitLines(text) # <<>> THEN PySplitLines(text) ELSE <<(<<>>)>>
        cell_h == font_size + 2
        max_cols == MaxOf([k \in 1..Len(lines) |-> Len(SgrStrip(lines[k]))])
    IN  [width |-> (PadX * 2 * 10 + GetLengthM(font) * max_cols) \div 10,
         height |-> PadY * 2 + cell_h * Len(lines),
         bg |-> bg_color,
         font |-> font,
         rows |-> [k \in 1..Len(lines) |-> parse_ansi_to_spans(lines[k])]]

(***************************************************************************)
(* The server (server.py).                                                 *)
(***************************************************************************)
\* Session(): no source, metrics = {}, agent_status = [].  The source is
\* <<>> for None and <<src>> for a FrameSource.
NoSource == <<>>
NewSession == [source |-> NoSource, metrics |-> <<>>, agent_status |-> <<>>]

\* _parse_agent_status: the loop over the lines from position i
RECURSIVE AgentLoop(_, _, _, _)
AgentLoop(lines, i, steps, acc) ==
    IF i > Len(lines)
    THEN (IF acc # <<>> THEN Append(steps, acc) ELSE steps)
    ELSE LET t == PyStrip(lines[i])
         IN  IF StartsWith(t, <<"Step", " ">>)
             THEN (IF acc # <<>> THEN AgentLoop(lines, i + 1, Append(steps, acc), <<>>)
                   ELSE AgentLoop(lines, i + 1, steps, acc))
             ELSE IF t # <<>> THEN AgentLoop(lines, i + 1, steps, Append(acc, t))
             ELSE AgentLoop(lines, i + 1, steps, acc)

parse_agent_status(txt) == AgentLoop(PySplitLines(txt), 1, <<>>, <<>>)

\* base + ".index.jsonl" for base, ext = os.path.splitext(ans_path)
Candidate(ans_path) == Path(ans_path.base, ".index.jsonl")

\* api_load, lines 84-89: the index path handed to FrameSource
IndexPathFor(fs, req) ==
    IF PathGiven(req.index_jsonl) THEN req.index_jsonl
    ELSE IF IsFile(fs, Candidate(req.ans_path)) THEN Candidate(req.ans_path)
    ELSE NoPath

\* [src.get(k) for k in range(1, len(src) + 1)]: the frames, or the first
\* exception
RECURSIVE AllFrames(_, _, _, _)
AllFrames(fs, src, k, acc) ==
    IF k > SourceLen(src) THEN Returned(acc)
    ELSE LET r == FrameSourceGet(fs, src, k)
         IN  IF r.exc # None THEN Raised(r.exc)
             ELSE AllFrames(fs, src, k + 1, Append(acc, r.val))

Failure(status, detail) == [status |-> status, detail |-> detail]

\* no response pending: the server waits for a request
NoResp == [op |-> "none", status |-> 0, detail |-> ""]

\* api_load, lines 84-102, without the check of len(src) == 0
LoadPrepareKeepsEmpty(fs, req) ==
    LET none == [src |-> NoSource, metrics |-> <<>>]
    IN  Bind(FrameSource(fs, req.ans_path, IndexPathFor(fs, req)),
             LAMBDA made :
                IF made.exc = "FileNotFoundError"
                THEN Failure(404, "File not found") @@ none
                ELSE IF made.exc # None THEN Failure(500, made.exc) @@ none
                ELSE Bind(AllFrames(fs, made.val, 1, <<>>),
                          LAMBDA frames :
                             IF frames.exc # None THEN Failure(500, frames.exc) @@ none
                             ELSE Failure(200, "") @@
                                  [src |-> <<made.val>>,
                                   metrics |-> parse_metrics(frames.val)]))

\* api_load, lines 84-102: everything before the first write to SESSION.
\* status 200 means that the handler goes on with src and metrics.
LoadPrepare(fs, req) ==
    LET none == [src |-> NoSource, metrics |-> <<>>]
    IN  Bind(FrameSource(fs, req.ans_path, IndexPathFor(fs, req)),
             LAMBDA made :
                IF made.exc = "FileNotFoundError"
                THEN Failure(404, "File not found") @@ none
                ELSE IF made.exc # None THEN Failure(500, made.exc) @@ none
                ELSE IF SourceLen(made.val) = 0
                THEN Failure(400, "No frames detected in file") @@ none
                ELSE Bind(AllFrames(fs, made.val, 1, <<>>),
                          LAMBDA frames :
                             IF frames.exc # None THEN Failure(500, frames.exc) @@ none
                             ELSE Failure(200, "") @@
                                  [src |-> <<made.val>>,
                                   metrics |-> parse_metrics(frames.val)]))

\* api_load, lines 108-113: the annotation list, or the exception that
\* leaves the handler
LoadAgentStatus(fs, req) ==
    IF ~PathGiven(req.agent_status_path) THEN Returned(<<>>)
    ELSE Bind(ServerReadText(fs, req.agent_status_path),
              LAMBDA txt :
                 IF txt.exc = "FileNotFoundError" THEN Returned(<<>>)
                 ELSE IF txt.exc # None THEN Raised(txt.exc)
                 ELSE Returned(parse_agent_status(txt.val)))

\* api_load as a whole: the session it leaves and the response
ApiLoadResult(fs, session, req) ==
    Bind(LoadPrepare(fs, req),
         LAMBDA pre :
            IF pre.status # 200
            THEN [session |-> session,
                  resp |-> [op |-> "load", status |-> pre.status, detail |-> pre.detail]]
            ELSE Bind(LoadAgentStatus(fs, req),
                      LAMBDA ag :
                         IF ag.exc # None
                         THEN [session |-> [source |-> pre.src, metrics |-> pre.metrics,
                                            agent_status |-> <<>>],
                               resp |-> [op |-> "load", status |-> 500, detail |-> ag.exc]]
                         ELSE [session |-> [source |-> pre.src, metrics |-> pre.metrics,
                                            agent_status |-> ag.val],
                               resp |-> [op |-> "load", status |-> 200, detail |-> "",
                                         num_frames |-> SourceLen(pre.src[1]),
                                         metrics |-> pre.metrics,
                                         has_agent_status |-> ag.val # <<>>]]))

\* SESSION.metrics.get(key, [None] * n)[k - 1]
MetricAt(metrics, key, n, k) ==
    PyIndex(DictGet(metrics, key, [i \in 1..n |-> NoInt]), k - 1)

\* api_frame as a whole: the response (the session is only read)
ApiFrameResult(fs, session, k) ==
    IF session.source = NoSource
    THEN [op |-> "frame", status |-> 400, detail |-> "No file loaded", k |-> k]
    ELSE LET src == session.source[1]
             n == SourceLen(src)
         IN  IF k < 1 \/ k > n
             THEN [op |-> "frame", status |-> 400, detail |-> "Frame index out of range", k |-> k]
             ELSE LET raw == FrameSourceGet(fs, src, k)
                      b == MetricAt(session.metrics, "burning_cells", n, k)
                      nb == MetricAt(session.metrics, "natural_burnouts", n, k)
                      ex == MetricAt(session.metrics, "extinguished_cum", n, k)
                      exc == IF raw.exc # None THEN raw.exc
                             ELSE IF b.exc # None THEN b.exc
                             ELSE IF nb.exc # None THEN nb.exc
                             ELSE ex.exc
                  IN  IF exc # None
                      THEN [op |-> "frame", status |-> 500, detail |-> exc, k |-> k]
                      ELSE [op |-> "frame", status |-> 200, detail |-> "", k |-> k,
                            index |-> k,
                            html |-> ansi_to_html(raw.val),
                            agent_status |->
                                IF 0 <= k - 1 /\ k - 1 < Len(session.agent_status)
                                THEN session.agent_status[k] ELSE <<>>,
                            burning |-> b.val, natural |-> nb.val, ext |-> ex.val]

\* "v or d" for an Optional[int] v
IntOr(v, d) == IF v = NoInt \/ v[1] = 0 THEN d ELSE v[1]

\* api_export_gif, lines 149-150, without the upper clamp of the end
ExportRangeEndUnclamped(cfg, n) ==
    LET start == Max(1, Min(IntOr(cfg.start, 1), n))
    IN  [start |-> start, end |-> Max(start, IntOr(cfg.end, n))]

\* api_export_gif, lines 148-150
ExportRange(cfg, n) ==
    LET start == Max(1, Min(IntOr(cfg.start, 1), n))
    IN  [start |-> start, end |-> Max(start, Min(IntOr(cfg.end, n), n))]

\* api_export_pngzip, lines 186-190
PngRange(cfg, n) ==
    LET start0 == IntOr(cfg.start, 1)
        end0 == IntOr(cfg.end, n)
        start == Max(1, Min(start0, n))
    IN  [start |-> start, end |-> Max(start, Min(end0, n))]

\* img.convert("P", palette=Image.ADAPTIVE, colors=256)
Quantize(img) == [mode |-> "P", colors |-> 256, image |-> img]

\* the loop "for k in range(start, end + 1)" of both exports from k on: the
\* images rendered with the given font, or the exception of a get
RECURSIVE RenderRange(_, _, _, _, _, _)
RenderRange(fs, src, k, end, font, cfg) ==
    IF k > end THEN Returned(<<>>)
    ELSE LET raw == FrameSourceGet(fs, src, k)
         IN  IF raw.exc # None THEN Raised(raw.exc)
             ELSE LET rest == RenderRange(fs, src, k + 1, end, font, cfg)
                  IN  IF rest.exc # None THEN rest
                      ELSE Returned(<<ansi_to_image(raw.val, font, cfg.font_size, cfg.bg_color)>>
                                        \o rest.val)

\* int(1000.0 / max(cfg.fps, 0.1)) for fps given in tenths; the quotient is
\* positive, so int() is the floor
MsPerFrame(fps10) == 10000 \div Max(fps10, 1)

\* f"frame_{k:05d}.png"
RECURSIVE Concat(_)
Concat(strs) == IF strs = <<>> THEN "" ELSE Head(strs) \o Concat(Tail(strs))

FrameName(k) ==
    LET d == [i \in 1..5 |-> HexDigit[((k \div (10 ^ (5 - i))) % 10) + 1]]
    IN  "frame_" \o Concat(d) \o ".png"

\* api_export_gif as a whole: the response and DEFAULT_FONT afterwards
ApiExportGifResult(fs, session, default_font, cfg, dejavu) ==
    IF session.source = NoSource
    THEN [font |-> default_font,
          resp |-> [op |-> "gif", status |-> 400, detail |-> "No file loaded", cfg |-> cfg]]
    ELSE LET src == session.source[1]
             rg == ExportRange(cfg, SourceLen(src))
             font == LoadFont(default_font, cfg.font_size, dejavu)
             imgs == RenderRange(fs, src, rg.start, rg.end, font, cfg)
         IN  IF imgs.exc # None
             THEN [font |-> IF FrameSourceGet(fs, src, rg.start).exc # None
                            THEN default_font ELSE font,
                   resp |-> [op |-> "gif", status |-> 500, detail |-> imgs.exc, cfg |-> cfg]]
             ELSE [font |-> font,
                   resp |-> [op |-> "gif", status |-> 200, detail |-> "", cfg |-> cfg,
                             frames |-> [i \in 1..Len(imgs.val) |-> Quantize(imgs.val[i])],
                             duration |-> MsPerFrame(cfg.fps10),
                             loop |-> 0, disposal |-> 2]]

\* api_export_pngzip as a whole
ApiExportPngzipResult(fs, session, default_font, cfg, dejavu) ==
    IF session.source = NoSource
    THEN [font |-> default_font,
          resp |-> [op |-> "pngzip", status |-> 400, detail |-> "No file loaded", cfg |-> cfg]]
    ELSE LET src == session.source[1]
             rg == PngRange(cfg, SourceLen(src))
             font == LoadFont(default_font, cfg.font_size, dejavu)
             imgs == RenderRange(fs, src, rg.start, rg.end, font, cfg)
         IN  IF imgs.exc # None
             THEN [font |-> IF FrameSourceGet(fs, src, rg.start).exc # None
                            THEN default_font ELSE font,
                   resp |-> [op |-> "pngzip", status |-> 500, detail |-> imgs.exc, cfg |-> cfg]]
             ELSE [font |-> font,
                   resp |-> [op |-> "pngzip", status |-> 200, detail |-> "", cfg |-> cfg,
                             entries |-> [i \in 1..Len(imgs.val) |->
                                            [name |-> FrameName(rg.start + i - 1),
                                             png |-> imgs.val[i]]]]]

(***************************************************************************)
(* Inputs of the interpreter: lines made of a few items.                   *)
(***************************************************************************)
Csi(params) == <<"ESC", "[">> \o params \o <<"m">>

AnsiItems ==
    { <<"x">>, <<"y">>, <<"m">>, <<"ESC", "[", "1">>,
      Csi(<<>>), Csi(<<"0">>), Csi(<<"1">>), Csi(<<"3", "4">>), Csi(<<"4", "1">>),
      Csi(<<"3", "8", ";", "5", ";", "1", "9", "6">>),
      Csi(<<"4", "8", ";", "5", ";", "2", "1">>),
      Csi(<<"3", "8", ";", "1">>),
      Csi(<<"3", "8", ";", "5">>),
      Csi(<<"4", "8", ";", "2", ";", "3", "1">>),
      Csi(<<"3", "1", ";", "0">>),
      Csi(<<";">>),
      Csi(<<"7">>) }

RECURSIVE Flatten(_)
Flatten(seqs) == IF seqs = <<>> THEN <<>> ELSE Head(seqs) \o Flatten(Tail(seqs))

AnsiLines ==
    UNION { {Flatten(items) : items \in [1..n -> AnsiItems]} : n \in 0..MaxItems }

(***************************************************************************)
(* Specification SpecAnsi: one call of parse_ansi_to_spans.                *)
(***************************************************************************)
AnsiIdle == s = <<>> /\ spans = <<>> /\ ansiPc = "off"
HdrIdle == hdrLine = <<>> /\ hdr = NoMatch /\ hdrPc = "off"
IdxIdle == idxLines = <<>> /\ idxRes = Returned(<<>>) /\ idxPc = "off"
\* no request is being served step by step
LoaderIdle(served) == [pc |-> "idle", served |-> served, req |-> <<>>, pre |-> <<>>, out |-> <<>>]
QueryIdle == [pc |-> "idle", op |-> "none", out |-> <<>>]
ConcIdle == loader = LoaderIdle(0) /\ query = QueryIdle
ColIdle == colN = 0 /\ colHex = "" /\ colPc = "off"

SrvIdle ==
    /\ disk = <<>>
    /\ SESSION = NewSession
    /\ DEFAULT_FONT = NoFont
    /\ resp = NoResp
    /\ ConcIdle /\ ColIdle

InitAnsi ==
    /\ s \in AnsiLines
    /\ spans = <<>>
    /\ ansiPc = "call"
    /\ HdrIdle /\ IdxIdle /\ SrvIdle

ParseAnsi ==
    /\ ansiPc = "call"
    /\ spans' = parse_ansi_to_spans(s)
    /\ ansiPc' = "done"
    /\ UNCHANGED <<s, hdrVars, idxVars, srvVars>>

NextAnsi == ParseAnsi

SpecAnsi == InitAnsi /\ [][NextAnsi]_vars

(***************************************************************************)
(* Claims about the interpreter.                                           *)
(***************************************************************************)
\* the positions of str that lie inside a control sequence ESC [ <digits
\* and semicolons> m
InControlSeq(str) ==
    {k \in 1..Len(str) :
        \E p \in 1..k, q \in k..Len(str) :
            /\ p + 2 <= q
            /\ str[p] = "ESC" /\ str[p + 1] = "[" /\ str[q] = "m"
            /\ \A r \in (p + 2)..(q - 1) : str[r] \in Digits \cup {";"}}

RECURSIVE KeepOutside(_, _, _)
KeepOutside(str, k, drop) ==
    IF k > Len(str) THEN <<>>
    ELSE (IF k \in drop THEN <<>> ELSE <<str[k]>>) \o KeepOutside(str, k + 1, drop)

WithoutControlSeqs(str) == KeepOutside(str, 1, InControlSeq(str))

RECURSIVE ConcatText(_)
ConcatText(runs) ==
    IF runs = <<>> THEN <<>> ELSE Head(runs).text \o ConcatText(Tail(runs))

\* C3: the texts of the returned Runs, concatenated in order, are the input
\* line with every control sequence ESC [ <digits and semicolons> m removed.
C3_ConcatEqualsStripped ==
    ansiPc = "done" => ConcatText(spans) = WithoutControlSeqs(s)

\* C3 witness: a parsed line with a control sequence between two texts,
\* returned as at least two Runs
C3_Witness ==
    /\ ansiPc = "done"
    /\ InControlSeq(s) # {}
    /\ Len(spans) >= 2
    /\ Len(WithoutControlSeqs(s)) < Len(s)

\* C11 as stated: for every input without a control sequence, of any
\* length including 0, parse_ansi_to_spans returns exactly one Run, whose
\* text is the input and whose style is the default.
C11_PlainTextOneRun ==
    (ansiPc = "done" /\ InControlSeq(s) = {}) =>
        spans = <<[text |-> s, style |-> DefaultStyle]>>

\* C11, amended: for every non-empty input without a control sequence
\* parse_ansi_to_spans returns exactly one Run, whose text is the input and
\* whose style is the default; for the empty input it returns no Run.
C11_NonEmptyPlainTextOneRun ==
    (ansiPc = "done" /\ InControlSeq(s) = {}) =>
        IF s = <<>> THEN spans = <<>>
        ELSE spans = <<[text |-> s, style |-> DefaultStyle]>>

\* C11 witness: a parsed input of several characters without a control
\* sequence, returned as one Run
C11_Witness ==
    /\ ansiPc = "done"
    /\ InControlSeq(s) = {}
    /\ Len(s) >= 2
    /\ Len(spans) = 1
    /\ spans[1].text = s

\* C14: every Run returned is maximal: no two consecutive Runs carry equal
\* styles, so a control sequence that leaves the effective style as it was
\* does not split the text.
C14_RunsMaximal ==
    ansiPc = "done" =>
        \A k \in 1..(Len(spans) - 1) : spans[k].style # spans[k + 1].style

\* a line with every control sequence removed whose parameter list is a
\* malformed extended-colour sequence: the marker 38 or 48 with at most two
\* parameters behind it that are not "5" and an index
IsMalformedExt(parts) ==
    /\ Len(parts) \in 1..3
    /\ parts[1] \in {38, 48}
    /\ ~(Len(parts) = 3 /\ parts[2] = 5)

WithoutMalformedExt(str) ==
    LET F[i \in 1..(Len(str) + 1)] ==
            IF i > Len(str) THEN <<>>
            ELSE LET q == SgrEndAt(str, i)
                 IN  IF q # 0 /\ IsMalformedExt(IntParts(PySplit(SubSeq(str, i + 2, q - 1), ";")))
                     THEN F[q + 1]
                     ELSE <<str[i]>> \o F[i + 1]
    IN  F[1]

\* C6: a malformed extended-colour sequence is ignored entirely, the
\* parameters behind the marker included: the Runs returned are those of the
\* line without that control sequence.
C6_MalformedExtIgnored ==
    ansiPc = "done" => spans = parse_ansi_to_spans(WithoutMalformedExt(s))

\* the parameters of a non-reset control sequence that are bold-on, a basic
\* foreground or background code, or a well-formed extended-colour triple,
\* from index j (0-based) on
RECURSIVE EffectiveParts(_, _)
EffectiveParts(parts, j) ==
    IF ~(j < Len(parts)) THEN <<>>
    ELSE LET c == parts[j + 1]
         IN  IF c = 1 \/ c \in DOMAIN BASIC_COLORS \/ c \in DOMAIN BASIC_BG
             THEN <<c>> \o EffectiveParts(parts, j + 1)
             ELSE IF c \in {38, 48} /\ j + 2 < Len(parts) /\ parts[j + 2] = 5
             THEN <<c, 5, parts[j + 3]>> \o EffectiveParts(parts, j + 3)
             ELSE EffectiveParts(parts, j + 1)

\* the interpreter with every other parameter of a non-reset control
\* sequence left out before the parameters are interpreted
RECURSIVE ParseEffectiveFrom(_, _, _)
ParseEffectiveFrom(str, i, st) ==
    LET a == SgrNext(str, i)
    IN  IF a = 0 THEN TrailingText(str, i, st)
        ELSE LET q == SgrEndAt(str, a)
                 st1 == AppendChunk(st, SubSeq(str, i, a - 1))
                 codes == SubSeq(str, a + 2, q - 1)
             IN  ParseEffectiveFrom(str, q + 1,
                     IF codes = <<>> \/ codes = <<"0">>
                     THEN NewCur(flush(st1))
                     ELSE ApplyParts(EffectiveParts(IntParts(PySplit(codes, ";")), 0),
                                     0, st1))

ParseEffective(str) ==
    LET st == ParseEffectiveFrom(str, 1, ParseStart)
    IN  [k \in 1..Len(st.spans) |->
            [text |-> st.spans[k].text, style |-> st.heap[st.spans[k].style]]]

\* C17: within a non-reset control sequence every parameter that is not
\* bold-on, a basic foreground or background code, or the head of a
\* well-formed extended-colour triple changes no style and closes no run, a 0
\* inside a multi-parameter list and a parameter string of semicolons
\* included: the Runs returned are those obtained with these parameters left
\* out.
C17_OtherParamsNoEffect ==
    ansiPc = "done" => spans = ParseEffective(s)

\* the interpreter with styles as values: cur is a record, a style change
\* yields a new record, and a Run keeps the record that was current when
\* its text was closed
RunsStart == [cur |-> DefaultStyle, buf |-> <<>>, runs |-> <<>>]

CloseRun(v) ==
    IF v.buf # <<>>
    THEN [v EXCEPT !.runs = Append(v.runs, [text |-> v.buf, style |-> v.cur]),
                   !.buf = <<>>]
    ELSE v

RECURSIVE RunsOfParts(_, _, _)
RunsOfParts(parts, j, v) ==
    IF ~(j < Len(parts)) THEN v
    ELSE LET c == parts[j + 1]
             w == CloseRun(v)
         IN  IF c = 0 THEN RunsOfParts(parts, j + 1, [w EXCEPT !.cur = DefaultStyle])
             ELSE IF c = 1 THEN RunsOfParts(parts, j + 1, [w EXCEPT !.cur.bold = TRUE])
             ELSE IF c \in DOMAIN BASIC_COLORS
             THEN RunsOfParts(parts, j + 1, [w EXCEPT !.cur.fg = BASIC_COLORS[c]])
             ELSE IF c \in DOMAIN BASIC_BG
             THEN RunsOfParts(parts, j + 1, [w EXCEPT !.cur.bg = BASIC_BG[c]])
             ELSE IF c = 38 /\ j + 2 < Len(parts) /\ parts[j + 2] = 5
             THEN RunsOfParts(parts, j + 3,
                      [w EXCEPT !.cur.fg = xterm_256_to_hex(parts[j + 3])])
             ELSE IF c = 48 /\ j + 2 < Len(parts) /\ parts[j + 2] = 5
             THEN RunsOfParts(parts, j + 3,
                      [w EXCEPT !.cur.bg = xterm_256_to_hex(parts[j + 3])])
             ELSE RunsOfParts(parts, j + 1, v)

RECURSIVE RunsFrom(_, _, _)
RunsFrom(str, i, v) ==
    LET a == SgrNext(str, i)
    IN  IF a = 0
        THEN CloseRun([v EXCEPT !.buf = v.buf \o SubSeq(str, i, Len(str))]).runs
        ELSE LET q == SgrEndAt(str, a)
                 v1 == [v EXCEPT !.buf = v.buf \o SubSeq(str, i, a - 1)]
                 codes == SubSeq(str, a + 2, q - 1)
             IN  RunsFrom(str, q + 1,
                     IF codes = <<>> \/ codes = <<"0">>
                     THEN [CloseRun(v1) EXCEPT !.cur = DefaultStyle]
                     ELSE RunsOfParts(IntParts(PySplit(codes, ";")), 0, v1))

\* C18: the style of a Run already emitted is not altered by the control
\* sequences processed later in the line: after parse_ansi_to_spans returns,
\* each Run's style is the current style that was in effect when the Run's
\* text was accumulated, although cur is updated by assigning its fields in
\* place.
C18_EmittedStyleKept ==
    ansiPc = "done" => spans = RunsFrom(s, 1, RunsStart)

\* C18 witness: a Run emitted with the default style, then bold switched on
\* in place and a second Run emitted bold; the first Run is still not bold
C18_Witness ==
    /\ ansiPc = "done"
    /\ Len(spans) >= 2
    /\ spans[1].style = DefaultStyle
    /\ spans[2].style = Style(TRUE, None, None)
    /\ \E a \in 1..Len(s) : SgrEndAt(s, a) # 0 /\ SubSeq(s, a + 2, SgrEndAt(s, a) - 1) = <<"1">>

(***************************************************************************)
(* Specification SpecColor: one call of xterm_256_to_hex.                  *)
(***************************************************************************)
InitColor ==
    /\ colN \in (-3)..MaxColor
    /\ colHex = ""
    /\ colPc = "call"
    /\ AnsiIdle /\ HdrIdle /\ IdxIdle
    /\ disk = <<>> /\ SESSION = NewSession /\ DEFAULT_FONT = NoFont /\ resp = NoResp
    /\ ConcIdle

XtermToHex ==
    /\ colPc = "call"
    /\ colHex' = xterm_256_to_hex(colN)
    /\ colPc' = "done"
    /\ UNCHANGED <<colN, ansiVars, hdrVars, idxVars, disk, SESSION, DEFAULT_FONT, resp,
                   concVars>>

NextColor == XtermToHex

SpecColor == InitColor /\ [][NextColor]_vars

\* "#rrggbb" for three channel levels
Rgb(r, g, b) == "#" \o Hex02(r) \o Hex02(g) \o Hex02(b)

\* the level of a base-6 digit of the colour cube
CubeLevel(v) == IF v = 0 THEN 0 ELSE 55 + 40 * v

\* C13: xterm_256_to_hex returns for every integer: for n in 16..231 the
\* colour whose channels are the levels of the base-6 digits of n - 16, for
\* n in 232..255 the gray of level 8 + 10 * (n - 232), for n in 0..15 the
\* entry of the system table, and for every other n the neutral gray.
C13_ExtendedColorReference ==
    colPc = "done" =>
        /\ (0 <= colN /\ colN <= 15) => colHex = SYSTEM_LUT[colN]
        /\ (16 <= colN /\ colN <= 231) =>
               \E r \in 0..5, g \in 0..5, b \in 0..5 :
                   /\ colN - 16 = 36 * r + 6 * g + b
                   /\ colHex = Rgb(CubeLevel(r), CubeLevel(g), CubeLevel(b))
        /\ (232 <= colN /\ colN <= 255) =>
               LET v == 8 + 10 * (colN - 232) IN colHex = Rgb(v, v, v)
        /\ (colN < 0 \/ colN > 255) => colHex = "#cccccc"
        /\ colN = 16 => colHex = "#000000"
        /\ colN = 231 => colHex = "#ffffff"
        /\ colN = 232 => colHex = "#080808"
        /\ colN = 255 => colHex = "#eeeeee"

\* C13 witness: the last colour of the cube was converted to white
C13_Witness == colPc = "done" /\ colN = 231 /\ colHex = "#ffffff"

(***************************************************************************)
(* Specification SpecHdr: one call of is_step_header.                      *)
(***************************************************************************)
HdrLines ==
    { pre \o <<"Step">> \o ws \o k \o reset \o <<":">> \o ws2 \o body \o x :
        pre \in {<<>>, <<"ESC", "[", "1", "m">>, <<" ">>},
        ws \in {<<" ">>, <<>>},
        k \in {<<"3">>, <<"1", "0">>},
        reset \in {<<>>, <<"ESC", "[", "0">>, <<"ESC", "[", "0", "m">>},
        ws2 \in {<<" ">>, <<>>},
        body \in { <<"Burning", " ", "cells", " ", "=", " ">>,
                   <<"Burning", "=">>,
                   <<"Burning", " ", "cells", " ">>,
                   <<"cells", "=">> },
        x \in {<<"1", "2">>, <<"7">>, <<>>} }

InitHdr ==
    /\ hdrLine \in HdrLines
    /\ hdr = NoMatch
    /\ hdrPc = "call"
    /\ AnsiIdle /\ IdxIdle /\ SrvIdle

IsStepHeader ==
    /\ hdrPc = "call"
    /\ hdr' = is_step_header(hdrLine)
    /\ hdrPc' = "done"
    /\ UNCHANGED <<hdrLine, ansiVars, idxVars, srvVars>>

NextHdr == IsStepHeader

SpecHdr == InitHdr /\ [][NextHdr]_vars

(***************************************************************************)
(* Claims about frame headers.                                             *)
(***************************************************************************)
DigitSym == <<"0", "1", "2", "3", "4", "5", "6", "7", "8", "9">>

\* the decimal numeral of n
RECURSIVE Dec(_)
Dec(n) == IF n < 10 THEN <<DigitSym[n + 1]>> ELSE Dec(n \div 10) \o <<DigitSym[(n % 10) + 1]>>

\* the line "Step <k>: Burning cells = <x>"
PlainHeaderLine(k, x) ==
    <<"Step", " ">> \o Dec(k) \o <<":", " ", "Burning", " ", "cells", " ", "=", " ">> \o Dec(x)

\* C2: every plain line "Step <k>: Burning cells = <x>" is recognized as a
\* frame header with step k and primary metric x.
C2_PlainHeaderRecognized ==
    hdrPc = "done" =>
        \A k \in 0..MaxNum, x \in 0..MaxNum :
            hdrLine = PlainHeaderLine(k, x) => hdr = <<k, x>>

(***************************************************************************)
(* Specification SpecIdx: one call of load_index_jsonl.                    *)
(***************************************************************************)
IdxLineKinds ==
    { BlankLine, GarbageLine, ArrayLine,
      ObjectLine(("offset" :> JInt(0)) @@ ("length" :> JInt(3))),
      ObjectLine(("offset" :> JInt(3)) @@ ("length" :> JInt(2))),
      ObjectLine(("start" :> JInt(2)) @@ ("end" :> JInt(5))),
      ObjectLine(("offset" :> JInt(2)) @@ ("len" :> JInt(1))),
      ObjectLine(("offset" :> JInt(1)) @@ ("length" :> JInt(0))),
      ObjectLine(("length" :> JInt(4))),
      ObjectLine(("offset" :> JInt(1))),
      ObjectLine(("offset" :> JStr) @@ ("length" :> JInt(2))),
      ObjectLine(("offset" :> JInt(1)) @@ ("length" :> JStr)),
      ObjectLine(("offset" :> JStr) @@ ("end" :> JInt(4))),
      ObjectLine(("offset" :> JInt(1)) @@ ("length" :> JNull) @@ ("end" :> JInt(3))) }

IdxFiles == UNION { [1..n -> IdxLineKinds] : n \in 0..MaxIdxLines }

InitIdx ==
    /\ idxLines \in IdxFiles
    /\ idxRes = Returned(<<>>)
    /\ idxPc = "call"
    /\ AnsiIdle /\ HdrIdle /\ SrvIdle

LoadIndex ==
    /\ idxPc = "call"
    /\ idxRes' = load_index_jsonl(idxLines)
    /\ idxPc' = "done"
    /\ UNCHANGED <<idxLines, ansiVars, hdrVars, srvVars>>

NextIdx == LoadIndex

SpecIdx == InitIdx /\ [][NextIdx]_vars

(***************************************************************************)
(* Claims about the index file reader.                                     *)
(***************************************************************************)
\* the integer under one of the keys, as a set: empty when the key is
\* missing or its value is no integer
IntUnder(obj, keys) ==
    IF \E key \in keys : key \in DOMAIN obj /\ obj[key].t = "int"
    THEN {obj[CHOOSE key \in keys : key \in DOMAIN obj /\ obj[key].t = "int"].v}
    ELSE {}

\* the entry a line carries: an integer offset with an integer length,
\* explicit or computed as end minus offset
CarriedEntry(l) ==
    IF l.kind # "object" THEN <<>>
    ELSE LET off == IntUnder(l.obj, {"offset", "start"})
             len == IntUnder(l.obj, {"length", "len"})
             end == IntUnder(l.obj, {"end"})
         IN  IF off = {} THEN <<>>
             ELSE IF len # {}
             THEN <<IndexEntry(CHOOSE o \in off : TRUE, CHOOSE n \in len : TRUE)>>
             ELSE IF end # {}
             THEN <<IndexEntry(CHOOSE o \in off : TRUE,
                               (CHOOSE e \in end : TRUE) - (CHOOSE o \in off : TRUE))>>
             ELSE <<>>

RECURSIVE CarriedEntries(_)
CarriedEntries(lines) ==
    IF lines = <<>> THEN <<>> ELSE CarriedEntry(Head(lines)) \o CarriedEntries(Tail(lines))

\* C7: for every index file load_index_jsonl returns normally, with one
\* entry, in file order, per line that carries an integer offset and an
\* integer length; every other line contributes nothing.
C7_IndexLenient ==
    idxPc = "done" =>
        /\ idxRes.exc = None
        /\ idxRes.val = CarriedEntries(idxLines)

(***************************************************************************)
(* Specification Spec: the server on a fixed disk, requests served one at  *)
(* a time.                                                                 *)
(***************************************************************************)
\* the header line as the simulator prints it: bold step, reset, metric
AnsiHeader(k, x) ==
    <<"ESC", "[", "1", "m", "Step", " ">> \o Dec(k) \o <<"ESC", "[", "0", "m", ":", " ",
      "Burning", " ", "cells", " ", "=", " ">> \o Dec(x)

\* the header of the second shape, the "m" of the reset missing
AltHeader(k, x) ==
    <<"Step", " ">> \o Dec(k) \o <<"ESC", "[", "0", ":", " ", "Burning", "=">> \o Dec(x)

LogA ==
    AnsiHeader(1, 5) \o <<"NL", "x", "ESC", "[", "3", "1", "m", "y", "ESC", "[", "0", "m", "NL",
      "Natural", " ", "burnouts", ":", " ", "2", "NL", "NL">>
    \o AnsiHeader(2, 7) \o <<"NL", "x", "NL">>

LogB ==
    AnsiHeader(1, 3) \o <<"NL">> \o AnsiHeader(2, 4) \o <<"NL", "y", "NL">>
    \o AltHeader(3, 6) \o <<"NL", "Extinguished", "=", "1", "NL">>

LogPlain == PlainHeaderLine(1, 5) \o <<"NL", "x", "NL">>

LogBin == AnsiHeader(1, 5) \o <<"NL", "xFF", "NL">>

PathA == Path("a", ".ans")
PathB == Path("b", ".ans")
PathPlain == Path("plain", ".ans")
PathBin == Path("bin", ".ans")
PathGone == Path("gone", ".ans")
IdxB == Path("b", ".index.jsonl")
IdxBad == Path("bad", ".index.jsonl")
IdxEmpty == Path("empty", ".index.jsonl")
AnnOk == Path("status", ".txt")
AnnBin == Path("statusbin", ".txt")
AnnGone == Path("nostatus", ".txt")

\* the index lines {"offset": o, "length": n} and {"start": a, "end": b}
OffsetLength(o, n) == ObjectLine(("offset" :> JInt(o)) @@ ("length" :> JInt(n)))
StartEnd(a, b) == ObjectLine(("start" :> JInt(a)) @@ ("end" :> JInt(b)))

ServerDisk ==
    (PathA :> TextFile(LogA)) @@ (PathB :> TextFile(LogB)) @@
    (PathPlain :> TextFile(LogPlain)) @@ (PathBin :> TextFile(LogBin)) @@
    (IdxB :> JsonlFile(<<OffsetLength(0, Len(AnsiHeader(1, 3))),
                         StartEnd(Len(AnsiHeader(1, 3)) + 1, Len(LogB))>>)) @@
    (IdxBad :> JsonlFile(<<OffsetLength(0, 3), GarbageLine>>)) @@
    (IdxEmpty :> JsonlFile(<<BlankLine, ObjectLine(("offset" :> JInt(1)))>>)) @@
    (AnnOk :> TextFile(<<"Step", " ", "1", "NL", "x", "NL", "Step", " ", "2", "NL", "y", "NL">>)) @@
    (AnnBin :> TextFile(<<"Step", " ", "1", "NL", "xFF", "NL">>))

LoadReqs ==
    [ans_path : {PathA, PathB, PathPlain, PathBin, PathGone},
     index_jsonl : {NoPath, IdxB, IdxBad, IdxEmpty},
     agent_status_path : {NoPath, AnnOk, AnnBin, AnnGone}]

FrameKs == (-1)..MaxK

OptInts == {NoInt} \cup {SomeInt(v) : v \in (-1)..MaxK}

\* playback rates in tenths of a frame per second
FpsTenths == {-10, 1, 15, 20, 30}

ExportCfg(start, end, fps10, font_size) ==
    [start |-> start, end |-> end, fps10 |-> fps10,
     font_size |-> font_size, bg_color |-> "#111111"]

\* every range at the default rate and size, and every rate and size for
\* the whole log
ExportReqs ==
    {ExportCfg(a, b, 20, 14) : a \in OptInts, b \in OptInts}
        \cup {ExportCfg(NoInt, NoInt, f, sz) : f \in FpsTenths, sz \in {14, 20}}

Init ==
    /\ disk = ServerDisk
    /\ SESSION = NewSession
    /\ DEFAULT_FONT = NoFont
    /\ resp = NoResp
    /\ ConcIdle /\ ColIdle
    /\ AnsiIdle /\ HdrIdle /\ IdxIdle

otherVars == <<ansiVars, hdrVars, idxVars, concVars, colVars>>

\* POST /api/load
ApiLoad(req) ==
    /\ resp = NoResp
    /\ \E r \in {ApiLoadResult(disk, SESSION, req)} :
           /\ SESSION' = r.session
           /\ resp' = r.resp @@ [req |-> req]
    /\ UNCHANGED <<disk, DEFAULT_FONT, otherVars>>

\* GET /api/frame/{k}
ApiFrame(k) ==
    /\ resp = NoResp
    /\ resp' = ApiFrameResult(disk, SESSION, k)
    /\ UNCHANGED <<disk, SESSION, DEFAULT_FONT, otherVars>>

\* POST /api/export/gif; dejavu: whether the font file is found
ApiExportGif(cfg, dejavu) ==
    /\ resp = NoResp
    /\ \E r \in {ApiExportGifResult(disk, SESSION, DEFAULT_FONT, cfg, dejavu)} :
           /\ DEFAULT_FONT' = r.font
           /\ resp' = r.resp
    /\ UNCHANGED <<disk, SESSION, otherVars>>

\* POST /api/export/pngzip
ApiExportPngzip(cfg, dejavu) ==
    /\ resp = NoResp
    /\ \E r \in {ApiExportPngzipResult(disk, SESSION, DEFAULT_FONT, cfg, dejavu)} :
           /\ DEFAULT_FONT' = r.font
           /\ resp' = r.resp
    /\ UNCHANGED <<disk, SESSION, otherVars>>

\* the response is sent and the server waits for the next request
SendResponse ==
    /\ resp # NoResp
    /\ resp' = NoResp
    /\ UNCHANGED <<disk, SESSION, DEFAULT_FONT, otherVars>>

Next ==
    \/ \E req \in LoadReqs : ApiLoad(req)
    \/ \E k \in FrameKs : ApiFrame(k)
    \/ \E cfg \in ExportReqs, dejavu \in BOOLEAN : ApiExportGif(cfg, dejavu)
    \/ \E cfg \in ExportReqs, dejavu \in BOOLEAN : ApiExportPngzip(cfg, dejavu)
    \/ SendResponse

Spec == Init /\ [][Next]_vars

(***************************************************************************)
(* Claims about the server, requests served one at a time.                 *)
(***************************************************************************)
\* C4: Load is all-or-nothing: a Load that fails leaves the session's
\* source, metrics and annotation list exactly as they were before the
\* request, and a Load that succeeds has replaced all three together.
C4_LoadAllOrNothing ==
    [][(resp = NoResp /\ resp'.op = "load") =>
          IF resp'.status # 200
          THEN SESSION' = SESSION
          ELSE /\ SESSION'.source # NoSource
               /\ SESSION'.source[1].ans_path = resp'.req.ans_path
               /\ SourceLen(SESSION'.source[1]) = resp'.num_frames
               /\ SESSION'.metrics = resp'.metrics
               /\ SESSION'.agent_status =
                      LoadAgentStatus(disk, resp'.req).val]_vars

\* the range the two exports are to cover
Clamp(v, lo, hi) == Max(lo, Min(v, hi))
ClampedStart(cfg, n) == Clamp(IntOr(cfg.start, 1), 1, n)
ClampedEnd(cfg, n) == Max(ClampedStart(cfg, n), Clamp(IntOr(cfg.end, n), 1, n))

\* frame k of the loaded store, rendered as the export just served did
RenderedFrame(k) ==
    ansi_to_image(FrameSourceGet(disk, SESSION.source[1], k).val,
                  DEFAULT_FONT, resp.cfg.font_size, resp.cfg.bg_color)

\* C19: in every state reached by Load, Get Frame and Export requests
\* served one at a time the session source is unset or a store with at least
\* one frame; while it is unset every Get Frame and Export request fails
\* with "No file loaded" and changes nothing; an export that proceeds
\* renders a non-empty list of frames.
C19_SourceUnsetOrNonEmpty ==
    /\ [](SESSION.source = NoSource \/ SourceLen(SESSION.source[1]) >= 1)
    /\ [][(resp = NoResp /\ resp'.op \in {"frame", "gif", "pngzip"}
              /\ SESSION.source = NoSource) =>
             /\ resp'.status = 400 /\ resp'.detail = "No file loaded"
             /\ SESSION' = SESSION /\ DEFAULT_FONT' = DEFAULT_FONT /\ disk' = disk]_vars
    /\ [][(resp = NoResp /\ resp'.op = "gif" /\ resp'.status = 200) =>
             Len(resp'.frames) >= 1]_vars

\* C19 witness: after a Load that set the source, an export proceeded and
\* rendered at least one frame
C19_Witness ==
    /\ SESSION.source # NoSource
    /\ SourceLen(SESSION.source[1]) >= 1
    /\ resp.op = "gif" /\ resp.status = 200
    /\ Len(resp.frames) >= 1

\* C8: for a loaded store of n >= 1 frames and any requested start and end,
\* both exports succeed and the artifact holds exactly the frames
\* start', ..., end' in order, where start' = clamp(start or 1, 1, n) and
\* end' = max(start', clamp(end or n, 1, n)), each rendered from get(k).
C8_ExportRangeClamped ==
    (resp.op \in {"gif", "pngzip"} /\ SESSION.source # NoSource) =>
        LET n == SourceLen(SESSION.source[1])
            a == ClampedStart(resp.cfg, n)
            e == ClampedEnd(resp.cfg, n)
        IN  /\ n >= 1
            /\ resp.status = 200
            /\ resp.op = "gif" =>
                   resp.frames = [i \in 1..(e - a + 1) |-> Quantize(RenderedFrame(a + i - 1))]
            /\ resp.op = "pngzip" =>
                   resp.entries = [i \in 1..(e - a + 1) |->
                                      [name |-> FrameName(a + i - 1),
                                       png |-> RenderedFrame(a + i - 1)]]

\* C8 witness: an animated export asked for a negative start and an end
\* beyond the last frame of a three-frame store, and delivered three frames
C8_Witness ==
    /\ resp.op = "gif" /\ resp.status = 200
    /\ resp.cfg.start = SomeInt(-1)
    /\ resp.cfg.end = SomeInt(MaxK)
    /\ SESSION.source # NoSource
    /\ SourceLen(SESSION.source[1]) = 3
    /\ Len(resp.frames) = 3

\* the images of the artifact just exported, in order
ExportedImages ==
    IF resp.op = "gif" THEN [i \in 1..Len(resp.frames) |-> resp.frames[i].image]
    ELSE [i \in 1..Len(resp.entries) |-> resp.entries[i].png]

\* frame k of the loaded store as a process renders it that has rendered
\* nothing before
FreshlyRendered(k, dejavu) ==
    ansi_to_image(FrameSourceGet(disk, SESSION.source[1], k).val,
                  LoadFont(NoFont, resp.cfg.font_size, dejavu),
                  resp.cfg.font_size, resp.cfg.bg_color)

\* C15: rasterization carries no hidden state: whatever was rendered
\* before, and with whatever character size, an export renders each frame
\* with the font of the requested size and the canvas dimensions that a
\* first rendering of the same text, size and background gives.
C15_RasterizeNoHiddenState ==
    (resp.op \in {"gif", "pngzip"} /\ resp.status = 200) =>
        \E dejavu \in BOOLEAN :
            \A i \in 1..Len(ExportedImages) :
                ExportedImages[i] =
                    FreshlyRendered(
                        ClampedStart(resp.cfg, SourceLen(SESSION.source[1])) + i - 1, dejavu)

\* a / b rounded to the nearest integer, halves to the even one
RoundDiv(a, b) ==
    LET q == a \div b
        r == a % b
    IN  IF 2 * r > b \/ (2 * r = b /\ q % 2 = 1) THEN q + 1 ELSE q

\* C9: the per-frame duration of the animated export is
\* round(1000 / max(fps, 0.1)) milliseconds for every playback rate.
C9_DurationRounded ==
    (resp.op = "gif" /\ resp.status = 200) =>
        resp.duration = RoundDiv(10000, Max(resp.cfg.fps10, 1))

(***************************************************************************)
(* Specification SpecStore: one log, drawn line by line, with or without   *)
(* an index beside it; the log is loaded and the loaded store is asked     *)
(* for frames directly.                                                    *)
(***************************************************************************)
StoreLineKinds ==
    { AnsiHeader(1, 5), AnsiHeader(2, 7), AltHeader(3, 6),
      <<"x">>, <<"y", " ">>, <<>> }

\* the logs of at most MaxLines lines, the last line ended by a line feed
\* or not
StoreLogs ==
    UNION { UNION { {PyJoin(ls, "NL"), PyJoin(ls, "NL") \o <<"NL">>} : ls \in [1..n -> StoreLineKinds] }
            : n \in 0..MaxLines }

StoreIndex == JsonlFile(<<OffsetLength(0, 2), StartEnd(1, 3)>>)

\* indexes over a log that holds a byte that is not valid UTF-8: entries
\* inside the file, one reaching past its end, two whose end lies before
\* their start, one with a negative offset
BinIndexes ==
    { <<OffsetLength(0, 3), StartEnd(3, Len(LogBin))>>,
      <<OffsetLength(Len(LogBin) - 2, 5), OffsetLength(Len(LogBin) + 1, 2)>>,
      <<StartEnd(3, 2)>>,
      <<StartEnd(5, 2)>>,
      <<OffsetLength(-1, 2)>> }

StoreDisks ==
    UNION { { PathA :> TextFile(log),
              (PathA :> TextFile(log)) @@ (Candidate(PathA) :> StoreIndex) }
            : log \in StoreLogs }
    \cup { (PathA :> TextFile(LogBin)) @@ (Candidate(PathA) :> JsonlFile(idx))
           : idx \in BinIndexes }

StoreLoadReq == [ans_path |-> PathA, index_jsonl |-> NoPath, agent_status_path |-> NoPath]

InitStore ==
    /\ disk \in StoreDisks
    /\ SESSION = NewSession
    /\ DEFAULT_FONT = NoFont
    /\ resp = NoResp
    /\ ConcIdle /\ ColIdle
    /\ AnsiIdle /\ HdrIdle /\ IdxIdle

\* SESSION.source.get(k), called on the loaded store
StoreGet(k) ==
    /\ resp = NoResp
    /\ SESSION.source # NoSource
    /\ resp' = [op |-> "get", status |-> 0, detail |-> "", k |-> k]
                   @@ FrameSourceGet(disk, SESSION.source[1], k)
    /\ UNCHANGED <<disk, SESSION, DEFAULT_FONT, otherVars>>

NextStore ==
    \/ ApiLoad(StoreLoadReq)
    \/ \E k \in FrameKs : StoreGet(k)
    \/ SendResponse

SpecStore == InitStore /\ [][NextStore]_vars

\* C1: for a constructed store of n >= 1 frames, in either mode, get(k)
\* fails with an out-of-range condition for every k outside 1..n and
\* returns a frame only for k in 1..n.
C1_GetOutOfRangeFails ==
    resp.op = "get" =>
        IF resp.k \in 1..SourceLen(SESSION.source[1])
        THEN resp.exc = None
        ELSE resp.exc = "IndexError"

\* the bytes [offset, offset + length) of the file, as far as the file goes
ByteRange(bytes, offset, length) ==
    SubSeq(bytes, offset + 1, Min(offset + length, Len(bytes)))

\* C12: in random-access mode get(k), for every index entry k, returns
\* content identical to the bytes [offset_k, offset_k + length_k) of the
\* log file and does not raise.
C12_GetReturnsIndexedBytes ==
    (/\ resp.op = "get"
     /\ SESSION.source[1].indexed
     /\ resp.k \in 1..Len(SESSION.source[1].entries)) =>
        /\ resp.exc = None
        /\ resp.val = ByteRange(disk[PathA].bytes,
                                SESSION.source[1].entries[resp.k].offset,
                                SESSION.source[1].entries[resp.k].length)

\* the lines of the loaded log and those recognized as headers
LogLines == PySplitLines(disk[PathA].bytes)
HeaderLines == {i \in 1..Len(LogLines) : is_step_header(LogLines[i]) # NoMatch}

\* the j-th header line, and the line before the next header or the last one
NthHeader(j) == CHOOSE i \in HeaderLines : Cardinality({h \in HeaderLines : h < i}) = j - 1
SpanEnd(i) ==
    IF \E h \in HeaderLines : h > i
    THEN (CHOOSE h \in HeaderLines : h > i /\ \A g \in HeaderLines : g > i => h <= g) - 1
    ELSE Len(LogLines)

\* the text from the j-th header line up to the next header or the end
HeaderSpan(j) == PyJoin(SubSeq(LogLines, NthHeader(j), SpanEnd(NthHeader(j))), "NL")

SplitMode == Candidate(PathA) \notin DOMAIN disk

\* C10 as stated: in split mode there are as many frames as header lines,
\* each frame is the text from its header line up to the next header or
\* the end of the text, and a log without header lines fails to load.
C10_FrameIsHeaderSpan ==
    (resp.op = "load" /\ SplitMode) =>
        IF HeaderLines = {}
        THEN resp.status # 200
        ELSE /\ resp.status = 200
             /\ resp.num_frames = Cardinality(HeaderLines)
             /\ Len(SESSION.source[1].frames) = Cardinality(HeaderLines)
             /\ \A j \in 1..Cardinality(HeaderLines) :
                    SESSION.source[1].frames[j] = HeaderSpan(j)

\* C10, amended: in split mode there are as many frames as header lines,
\* each frame is the text from its header line up to the next header or
\* the end of the text with the whitespace at its end removed, and a log
\* without header lines fails to load.
C10_FrameIsStrippedHeaderSpan ==
    (resp.op = "load" /\ SplitMode) =>
        IF HeaderLines = {}
        THEN resp.status = 400 /\ SESSION.source = NoSource
        ELSE /\ resp.status = 200
             /\ resp.num_frames = Cardinality(HeaderLines)
             /\ Len(SESSION.source[1].frames) = Cardinality(HeaderLines)
             /\ \A j \in 1..Cardinality(HeaderLines) :
                    SESSION.source[1].frames[j] = PyRStrip(HeaderSpan(j))

\* C10 witness: a log of two header lines was loaded in split mode as two
\* frames, the first of them shorter than its span
C10_Witness ==
    /\ resp.op = "load" /\ resp.status = 200 /\ SplitMode
    /\ Cardinality(HeaderLines) = 2
    /\ resp.num_frames = 2
    /\ SESSION.source[1].frames[1] # HeaderSpan(1)
    /\ SESSION.source[1].frames[1] = PyRStrip(HeaderSpan(1))

(***************************************************************************)
(* Specification SpecAnn: a log of three frames with an annotation file    *)
(* drawn line by line; the log is loaded and its frames are requested.     *)
(***************************************************************************)
AnnLineKinds ==
    { <<"Step", " ", "1">>, <<"Step", " ", "2">>, <<"x">>, <<" ", "y", " ">>, <<>> }

AnnTexts ==
    UNION { {PyJoin(ls, "NL") \o <<"NL">> : ls \in [1..n -> AnnLineKinds]}
            : n \in 1..MaxAnnLines }

AnnLoadReq == [ans_path |-> PathB, index_jsonl |-> NoPath, agent_status_path |-> AnnOk]

InitAnn ==
    /\ disk \in {(PathB :> TextFile(LogB)) @@ (AnnOk :> TextFile(txt)) : txt \in AnnTexts}
    /\ SESSION = NewSession
    /\ DEFAULT_FONT = NoFont
    /\ resp = NoResp
    /\ ConcIdle /\ ColIdle
    /\ AnsiIdle /\ HdrIdle /\ IdxIdle

NextAnn ==
    \/ ApiLoad(AnnLoadReq)
    \/ \E k \in FrameKs : ApiFrame(k)
    \/ SendResponse

SpecAnn == InitAnn /\ [][NextAnn]_vars

\* the lines of the annotation file and those that are step markers
AnnLines == PySplitLines(disk[AnnOk].bytes)
MarkerLines == {i \in 1..Len(AnnLines) : StartsWith(PyStrip(AnnLines[i]), <<"Step", " ">>)}

\* the non-empty lines among lines i..j, without the blanks around them
RECURSIVE NonEmptyLines(_, _)
NonEmptyLines(i, j) ==
    IF i > j THEN <<>>
    ELSE (IF PyStrip(AnnLines[i]) # <<>> THEN <<PyStrip(AnnLines[i])>> ELSE <<>>)
         \o NonEmptyLines(i + 1, j)

\* the annotation lines of step k: those between the k-th marker and the
\* next marker or the end of the file
StepAnnotations(k) ==
    IF k < 1 \/ k > Cardinality(MarkerLines) THEN <<>>
    ELSE LET m == CHOOSE i \in MarkerLines : Cardinality({h \in MarkerLines : h < i}) = k - 1
             later == {h \in MarkerLines : h > m}
             last == IF later = {} THEN Len(AnnLines)
                     ELSE (CHOOSE h \in later : \A g \in later : h <= g) - 1
         IN  NonEmptyLines(m + 1, last)

\* C16: Get Frame k returns exactly the non-empty lines that follow the
\* k-th step marker of the annotation text and precede the next marker, the
\* empty list when that step has no lines or there is no k-th marker; steps
\* without lines and text before the first marker shift nothing.
C16_AnnotationsOfStep ==
    (resp.op = "frame" /\ resp.status = 200) =>
        resp.agent_status = StepAnnotations(resp.k)

(***************************************************************************)
(* Specification SpecConc: the handlers run in the worker threads of the   *)
(* server, so a Load and a query interleave between any two accesses to    *)
(* SESSION.  One Load and one query are served at a time, each one         *)
(* statement of the handler per step.                                      *)
(***************************************************************************)
ConcLoadReqs ==
    { [ans_path |-> PathA, index_jsonl |-> NoPath, agent_status_path |-> AnnOk],
      [ans_path |-> PathB, index_jsonl |-> IdxEmpty, agent_status_path |-> NoPath],
      [ans_path |-> PathGone, index_jsonl |-> NoPath, agent_status_path |-> NoPath] }

ConcExportReqs ==
    { ExportCfg(NoInt, NoInt, 20, 14), ExportCfg(SomeInt(2), SomeInt(MaxK), 20, 14) }

concOther == <<disk, resp, ansiVars, hdrVars, idxVars, colVars>>

\* api_load, lines 83-102: everything up to the first write to SESSION
LoadStart(req) ==
    /\ loader.pc = "idle"
    /\ loader.served < MaxLoads
    /\ \E pre \in {LoadPrepare(disk, req)} :
           loader' = IF pre.status # 200
                     THEN [loader EXCEPT !.pc = "done", !.req = <<req>>,
                                         !.out = <<[op |-> "load", status |-> pre.status,
                                                    detail |-> pre.detail]>>]
                     ELSE [loader EXCEPT !.pc = "source", !.req = <<req>>, !.pre = <<pre>>]
    /\ UNCHANGED <<SESSION, DEFAULT_FONT, query, concOther>>

\* line 104: SESSION.source = src
LoadSetSource ==
    /\ loader.pc = "source"
    /\ SESSION' = [SESSION EXCEPT !.source = loader.pre[1].src]
    /\ loader' = [loader EXCEPT !.pc = "metrics"]
    /\ UNCHANGED <<DEFAULT_FONT, query, concOther>>

\* line 105: SESSION.metrics = metrics
LoadSetMetrics ==
    /\ loader.pc = "metrics"
    /\ SESSION' = [SESSION EXCEPT !.metrics = loader.pre[1].metrics]
    /\ loader' = [loader EXCEPT !.pc = "clear"]
    /\ UNCHANGED <<DEFAULT_FONT, query, concOther>>

\* lines 108-109: SESSION.agent_status = []
LoadClearStatus ==
    /\ loader.pc = "clear"
    /\ SESSION' = [SESSION EXCEPT !.agent_status = <<>>]
    /\ loader' = [loader EXCEPT !.pc = IF PathGiven(loader.req[1].agent_status_path)
                                       THEN "status" ELSE "respond"]
    /\ UNCHANGED <<DEFAULT_FONT, query, concOther>>

\* lines 110-113: the annotation file read and assigned
LoadSetStatus ==
    /\ loader.pc = "status"
    /\ \E ag \in {LoadAgentStatus(disk, loader.req[1])} :
           IF ag.exc # None
           THEN /\ SESSION' = SESSION
                /\ loader' = [loader EXCEPT !.pc = "done",
                                            !.out = <<[op |-> "load", status |-> 500,
                                                       detail |-> ag.exc]>>]
           ELSE /\ SESSION' = [SESSION EXCEPT !.agent_status = ag.val]
                /\ loader' = [loader EXCEPT !.pc = "respond"]
    /\ UNCHANGED <<DEFAULT_FONT, query, concOther>>

\* lines 115-120
LoadRespond ==
    /\ loader.pc = "respond"
    /\ loader' = [loader EXCEPT !.pc = "done",
                                !.out = <<[op |-> "load", status |-> 200, detail |-> "",
                                           num_frames |-> SourceLen(loader.pre[1].src[1]),
                                           metrics |-> loader.pre[1].metrics,
                                           has_agent_status |-> SESSION.agent_status # <<>>]>>]
    /\ UNCHANGED <<SESSION, DEFAULT_FONT, query, concOther>>

\* the response of the Load is sent
LoadReturn ==
    /\ loader.pc = "done"
    /\ loader' = LoaderIdle(loader.served + 1)
    /\ UNCHANGED <<SESSION, DEFAULT_FONT, query, concOther>>

QueryFailed(status, detail) ==
    IF query.op = "frame"
    THEN [pc |-> "done", op |-> "frame", k |-> query.k,
          out |-> <<[op |-> "frame", status |-> status, detail |-> detail, k |-> query.k]>>]
    ELSE [pc |-> "done", op |-> "gif", cfg |-> query.cfg, dejavu |-> query.dejavu,
          out |-> <<[op |-> "gif", status |-> status, detail |-> detail, cfg |-> query.cfg]>>]

\* api_frame, lines 125-126
FrameStart(k) ==
    /\ query.pc = "idle"
    /\ query' = IF SESSION.source = NoSource
                THEN [pc |-> "done", op |-> "frame", k |-> k,
                      out |-> <<[op |-> "frame", status |-> 400,
                                 detail |-> "No file loaded", k |-> k]>>]
                ELSE [pc |-> "len", op |-> "frame", k |-> k, out |-> <<>>]
    /\ UNCHANGED <<SESSION, DEFAULT_FONT, loader, concOther>>

\* lines 127-129
FrameLen ==
    /\ query.pc = "len"
    /\ LET n == SourceLen(SESSION.source[1])
       IN  query' = IF query.k < 1 \/ query.k > n
                    THEN QueryFailed(400, "Frame index out of range")
                    ELSE [n |-> n] @@ [query EXCEPT !.pc = "get"]
    /\ UNCHANGED <<SESSION, DEFAULT_FONT, loader, concOther>>

\* lines 130-131
FrameGet ==
    /\ query.pc = "get"
    /\ \E raw \in {FrameSourceGet(disk, SESSION.source[1], query.k)} :
           query' = IF raw.exc # None THEN QueryFailed(500, raw.exc)
                    ELSE [html |-> ansi_to_html(raw.val)] @@ [query EXCEPT !.pc = "status"]
    /\ UNCHANGED <<SESSION, DEFAULT_FONT, loader, concOther>>

\* line 135
FrameStatus ==
    /\ query.pc = "status"
    /\ query' = [agent_status |->
                     IF 0 <= query.k - 1 /\ query.k - 1 < Len(SESSION.agent_status)
                     THEN SESSION.agent_status[query.k] ELSE <<>>,
                 vals |-> <<>>]
                @@ [query EXCEPT !.pc = "burning_cells"]
    /\ UNCHANGED <<SESSION, DEFAULT_FONT, loader, concOther>>

\* lines 136-138, one of them per step, and the return of line 140
FrameMetric ==
    /\ query.pc \in {"burning_cells", "natural_burnouts", "extinguished_cum"}
    /\ \E m \in {MetricAt(SESSION.metrics, query.pc, query.n, query.k)} :
           query' =
               IF m.exc # None THEN QueryFailed(500, m.exc)
               ELSE IF query.pc = "burning_cells"
               THEN [query EXCEPT !.pc = "natural_burnouts", !.vals = <<m.val>>]
               ELSE IF query.pc = "natural_burnouts"
               THEN [query EXCEPT !.pc = "extinguished_cum", !.vals = Append(@, m.val)]
               ELSE [pc |-> "done", op |-> "frame", k |-> query.k,
                     out |-> <<[op |-> "frame", status |-> 200, detail |-> "",
                                k |-> query.k, index |-> query.k, html |-> query.html,
                                agent_status |-> query.agent_status,
                                burning |-> query.vals[1], natural |-> query.vals[2],
                                ext |-> m.val]>>]
    /\ UNCHANGED <<SESSION, DEFAULT_FONT, loader, concOther>>

\* api_export_gif, lines 145-146
GifStart(cfg, dejavu) ==
    /\ query.pc = "idle"
    /\ query' = IF SESSION.source = NoSource
                THEN [pc |-> "done", op |-> "gif", cfg |-> cfg, dejavu |-> dejavu,
                      out |-> <<[op |-> "gif", status |-> 400,
                                 detail |-> "No file loaded", cfg |-> cfg]>>]
                ELSE [pc |-> "range", op |-> "gif", cfg |-> cfg, dejavu |-> dejavu,
                      out |-> <<>>]
    /\ UNCHANGED <<SESSION, DEFAULT_FONT, loader, concOther>>

\* lines 148-152
GifRange ==
    /\ query.pc = "range"
    /\ LET rg == ExportRange(query.cfg, SourceLen(SESSION.source[1]))
       IN  query' = [k |-> rg.start, end |-> rg.end, frames |-> <<>>]
                    @@ [query EXCEPT !.pc = "render"]
    /\ UNCHANGED <<SESSION, DEFAULT_FONT, loader, concOther>>

\* lines 153-157: one turn of the loop
GifRender ==
    /\ query.pc = "render"
    /\ \E raw \in {FrameSourceGet(disk, SESSION.source[1], query.k)} :
           IF raw.exc # None
           THEN /\ query' = QueryFailed(500, raw.exc)
                /\ DEFAULT_FONT' = DEFAULT_FONT
           ELSE \E font \in {LoadFont(DEFAULT_FONT, query.cfg.font_size, query.dejavu)} :
                    /\ DEFAULT_FONT' = font
                    /\ query' = [query EXCEPT
                                    !.pc = IF query.k + 1 > query.end THEN "save" ELSE "render",
                                    !.k = @ + 1,
                                    !.frames = Append(@, Quantize(ansi_to_image(
                                        raw.val, font, query.cfg.font_size,
                                        query.cfg.bg_color)))]
    /\ UNCHANGED <<SESSION, loader, concOther>>

\* lines 159-173
GifSave ==
    /\ query.pc = "save"
    /\ query' = [pc |-> "done", op |-> "gif", cfg |-> query.cfg, dejavu |-> query.dejavu,
                 out |-> <<[op |-> "gif", status |-> 200, detail |-> "", cfg |-> query.cfg,
                            frames |-> query.frames,
                            duration |-> MsPerFrame(query.cfg.fps10),
                            loop |-> 0, disposal |-> 2]>>]
    /\ UNCHANGED <<SESSION, DEFAULT_FONT, loader, concOther>>

\* the response of the query is sent
QueryReturn ==
    /\ query.pc = "done"
    /\ query' = QueryIdle
    /\ UNCHANGED <<SESSION, DEFAULT_FONT, loader, concOther>>

NextConc ==
    \/ \E req \in ConcLoadReqs : LoadStart(req)
    \/ LoadSetSource
    \/ LoadSetMetrics
    \/ LoadClearStatus
    \/ LoadSetStatus
    \/ LoadRespond
    \/ LoadReturn
    \/ \E k \in FrameKs : FrameStart(k)
    \/ FrameLen
    \/ FrameGet
    \/ FrameStatus
    \/ FrameMetric
    \/ \E cfg \in ConcExportReqs, dejavu \in BOOLEAN : GifStart(cfg, dejavu)
    \/ GifRange
    \/ GifRender
    \/ GifSave
    \/ QueryReturn

SpecConc == Init /\ [][NextConc]_vars

\* the sessions a Load leaves behind when requests are served one at a time
ConcContexts ==
    {NewSession} \cup {ApiLoadResult(ServerDisk, NewSession, req).session : req \in ConcLoadReqs}

ConcFonts == {NoFont, PilDefault} \cup {TrueType(cfg.font_size) : cfg \in ConcExportReqs}

\* C5: under every interleaving of a Load with a concurrently served Get
\* Frame or Export, the query observes one single loaded context: its
\* response is the one it would give on the context of some one Load (or
\* on the empty session), taken as a whole.
C5_QueryObservesOneContext ==
    query.pc = "done" =>
        \E ctx \in ConcContexts :
            IF query.op = "frame"
            THEN query.out[1] = ApiFrameResult(disk, ctx, query.k)
            ELSE \E font \in ConcFonts :
                     query.out[1] =
                         ApiExportGifResult(disk, ctx, font, query.cfg, query.dejavu).resp

====
